---- MODULE Spec2Model ----
(***************************************************************************)
(* The tournament bracket engine of the sub-event management view          *)
(* (SubEventClient, client.tsx): pool assignment, the knockout bracket     *)
(* builder, winner / finalist resolution and the placement records, over   *)
(* the hosted result store.                                                *)
(*                                                                         *)
(* Each editor is one mounted SubEventClient with its own React state; the *)
(* store tables are shared.  An async handler is cut at its store calls    *)
(* (await): one action per store call together with the synchronous code   *)
(* that follows it, the re-render and the effects that re-render runs.     *)
(* A handler reads the state of the render it was created in (its          *)
(* closure), which the model carries in pc[e].view.  A write of a match    *)
(* result may fail (the handler logs the error and returns); the store's   *)
(* reads and the placement inserts are taken to succeed.                   *)
(***************************************************************************)
EXTENDS Integers, Sequences, FiniteSets, TLC

\* ---------------------------------------------------------------- bounds
MaxRoster == 3          \* roster size of the system specifications
MaxPoolRoster == 5      \* roster size of SpecPools
MaxBracketRoster == 7   \* roster size of SpecBracket
MaxAdvancing == 7       \* advancing participants of Pool A in SpecConverge
MaxManualRows == 1      \* row ids of a table up to which the manual forms add
MaxGroupRoster == 7     \* roster size of SpecGroups

Editors == {"e1", "e2"}
Associations == {"X", "Y", "Z"}

VARIABLES
    roster,                \* sub_event_participants joined with players (store)
    dbMatch,               \* sub_event_match_results (store), in insertion order
    dbSummary,             \* sub_event_summary_results (store)
    dbClubbed,             \* sub_event_clubbed_results (store)
    nextId,                \* the store's row-id generator, per table
    participants,          \* per editor: useState participants
    pools,                 \* per editor: useState pools
    matchResults,          \* per editor: useState matchResults (the result log)
    selectedWinners,       \* per editor: useState selectedWinners
    poolKnockoutMatches,   \* per editor: useState poolKnockoutMatches
    finalMatch,            \* per editor: useState finalMatch
    thirdPlaceSelections,  \* per editor: useState thirdPlaceSelections
    pending,               \* per editor: the load's fetches in flight
    pc                     \* per editor: the handler in flight and its closure

storeVars == <<roster, dbMatch, dbSummary, dbClubbed, nextId>>
uiVars == <<participants, pools, matchResults, selectedWinners,
            poolKnockoutMatches, finalMatch, thirdPlaceSelections>>
vars == <<roster, dbMatch, dbSummary, dbClubbed, nextId, participants, pools,
          matchResults, selectedWinners, poolKnockoutMatches, finalMatch,
          thirdPlaceSelections, pending, pc>>

\* ------------------------------------------------------------ data model
\* PlayerData: only id and association are read by the bracket engine.
PlayerData(i, a) == [id |-> i, association |-> a]
\* JavaScript's undefined, for a player, a row id or a winner id.
NoPlayer == [id |-> 0, association |-> ""]
Undefined == 0

\* const y = x; F(y): the value F gives for the value of x.
With(x, F(_)) == CHOOSE r \in {F(y) : y \in {x}} : TRUE

\* Array.prototype.findIndex, 1-based; 0 stands for JavaScript's -1.
FindIndex(s, P(_)) ==
    With(s, LAMBDA t :
        IF \E i \in 1..Len(t) : P(t[i])
        THEN CHOOSE i \in 1..Len(t) : P(t[i]) /\ \A j \in 1..(i - 1) : ~P(t[j])
        ELSE 0)

\* Array.prototype.filter((_, i) => i !== k)
RemoveAt(s, k) == [i \in 1..(Len(s) - 1) |-> IF i < k THEN s[i] ELSE s[i + 1]]

\* Array.prototype.filter(P)
Filter(s, P(_)) == SelectSeq(s, P)

Range(s) == {s[i] : i \in 1..Len(s)}

\* participants.find(p => p.id === id)
FindPlayer(parts, id) ==
    With(FindIndex(parts, LAMBDA p : p.id = id), LAMBDA i :
        IF i = 0 THEN NoPlayer ELSE parts[i])

\* --------------------------------------------------------------- stage ids
\* A stage id is the text the template literal builds, kept as the sequence
\* of its pieces (words, separators and formatted numbers); String.includes
\* is a search for a run of pieces.
PoolNumber(poolLetter) == IF poolLetter = "A" THEN 1 ELSE 2
GroupName(poolNumber, groupIndex) ==
    <<ToString(poolNumber), ".", ToString(groupIndex + 1)>>
GroupStageId(pool, groupName) == <<pool, "-">> \o groupName
KnockoutPoolNumber(poolName) == IF poolName = "Pool A" THEN 1 ELSE 2
KnockoutMatchIdOfRound(poolNumber, roundIndex, n) ==
    <<"knockout", "-", ToString(poolNumber), ".", ToString(roundIndex),
      "-", "match">>
KnockoutMatchId(poolNumber, roundIndex, n) ==
    <<"knockout", "-", ToString(poolNumber), ".", ToString(roundIndex),
      "-", "match", ToString(n)>>
KnockoutStageLabel(roundIndex, n) ==
    <<"Round", " ", ToString(roundIndex), " ", "Match", " ", ToString(n + 1)>>
FinalStageId == <<"final">>
ThirdPlaceStageId(pool) == <<"third-place", "-", pool>>
Includes(text, pieces) ==
    \E i \in 1..Len(text) :
        /\ i + Len(pieces) - 1 <= Len(text)
        /\ SubSeq(text, i, i + Len(pieces) - 1) = pieces

\* ---------------------------------------------------------- pool assignment
\* currentPlayers.findIndex(p => p.association !== group.players[0].association)
DifferentStatePlayerIndexAny(currentPlayers, anchor) ==
    IF Len(currentPlayers) > 0 THEN 1 ELSE 0
DifferentStatePlayerIndexLast(currentPlayers, anchor) ==
    LET hits == {i \in 1..Len(currentPlayers) :
                    currentPlayers[i].association # anchor.association}
    IN IF hits = {} THEN 0 ELSE CHOOSE i \in hits : \A j \in hits : j <= i
DifferentStatePlayerIndex(currentPlayers, anchor) ==
    FindIndex(currentPlayers, LAMBDA p : p.association # anchor.association)

\* currentPlayers.filter((_, i) => i !== differentStatePlayerIndex)
RemovePartnerKept(currentPlayers, idx) == currentPlayers
RemovePartner(currentPlayers, idx) == RemoveAt(currentPlayers, idx)

\* The while loop of createPoolGroups.
RECURSIVE PoolGroupsLoop(_, _, _, _)
PoolGroupsLoop(currentPlayers, groups, groupIndex, poolNumber) ==
    IF Len(currentPlayers) = 0 THEN groups
    ELSE With(Head(currentPlayers), LAMBDA anchor :
         With(Tail(currentPlayers), LAMBDA rest :
         With(IF Len(rest) > 0 THEN DifferentStatePlayerIndex(rest, anchor) ELSE 0,
              LAMBDA idx :
         With([name |-> GroupName(poolNumber, groupIndex),
               players |-> IF idx # 0 THEN <<anchor, rest[idx]>> ELSE <<anchor>>],
              LAMBDA group :
         With(IF idx # 0 THEN RemovePartner(rest, idx) ELSE rest,
              LAMBDA remaining :
         With(Append(groups, group), LAMBDA grown :
             PoolGroupsLoop(remaining, grown, groupIndex + 1, poolNumber)))))))

createPoolGroups(players, poolLetter) ==
    [name |-> IF poolLetter = "A" THEN "Pool A" ELSE "Pool B",
     groups |-> PoolGroupsLoop(players, <<>>, 0, PoolNumber(poolLetter))]

\* Math.ceil(shuffledPlayers.length / 2)
MidPointFloor(n) == n \div 2
MidPoint(n) == (n + 1) \div 2

\* [...players].sort(() => Math.random() - 0.5): some permutation of players.
Shuffle(players, perm) == [i \in 1..Len(players) |-> players[perm[i]]]

\* generatePools' value for setPools, for the shuffle the sort produced.
generatePools(players, perm) ==
    With(Shuffle(players, perm), LAMBDA shuffledPlayers :
    With(MidPoint(Len(shuffledPlayers)), LAMBDA midPoint :
    With(SubSeq(shuffledPlayers, 1, midPoint), LAMBDA poolAPlayers :
    With(SubSeq(shuffledPlayers, midPoint + 1, Len(shuffledPlayers)),
         LAMBDA poolBPlayers :
        <<createPoolGroups(poolAPlayers, "A"),
          createPoolGroups(poolBPlayers, "B")>>))))

\* ------------------------------------------------------------ result log
\* A MatchResult row of sub_event_match_results.
NoRow == [id |-> 0, match_stage |-> <<>>, player1_id |-> 0, player2_id |-> 0,
          winner_id |-> 0]
MatchRow(id, stage, p1, p2, w) ==
    [id |-> id, match_stage |-> stage, player1_id |-> p1, player2_id |-> p2,
     winner_id |-> w]

\* matchResults.find(r => r.match_stage === stage)
FindResultLast(results, stage) ==
    LET hits == {i \in 1..Len(results) : results[i].match_stage = stage}
    IN IF hits = {} THEN NoRow
       ELSE results[CHOOSE i \in hits : \A j \in hits : j <= i]
FindResult(results, stage) ==
    With(FindIndex(results, LAMBDA r : r.match_stage = stage), LAMBDA i :
        IF i = 0 THEN NoRow ELSE results[i])

getMatchResult(pool, groupName, results) ==
    FindResult(results, GroupStageId(pool, groupName))

getThirdPlaceResult(pool, results) == FindResult(results, ThirdPlaceStageId(pool))

\* pools.find(p => p.name === poolName)
FindPool(ps, poolName) ==
    With(FindIndex(ps, LAMBDA p : p.name = poolName), LAMBDA i :
        IF i = 0 THEN [name |-> "", groups |-> <<>>] ELSE ps[i])

\* The advancing participant of one group, NoPlayer when unresolved.
GroupWinnerFirstPlayer(poolName, group, results, parts) == group.players[1]
GroupWinner(poolName, group, results, parts) ==
    With(getMatchResult(poolName, group.name, results), LAMBDA matchResult :
        IF matchResult # NoRow THEN FindPlayer(parts, matchResult.winner_id)
        ELSE IF Len(group.players) = 1 THEN group.players[1]
        ELSE NoPlayer)

getPoolWinners(poolName, ps, results, parts) ==
    With(FindPool(ps, poolName), LAMBDA pool :
        Filter([i \in 1..Len(pool.groups) |->
                   With(pool.groups[i], LAMBDA group :
                       GroupWinner(poolName, group, results, parts))],
               LAMBDA player : player # NoPlayer))

\* ------------------------------------------------------- bracket builder
KnockoutMatch(id, p1, p2, w, stage) ==
    [id |-> id, player1 |-> p1, player2 |-> p2, winner_id |-> w, stage |-> stage]

\* matchesArray.length > 0 ?
\*   Math.floor(matchesArray.length / Math.ceil(poolPlayers.length / 2)) + 1 : 1
RoundIndex(matchesArray, poolPlayers) ==
    IF Len(matchesArray) > 0
    THEN (Len(matchesArray) \div ((Len(poolPlayers) + 1) \div 2)) + 1
    ELSE 1

\* Which participant an odd round sends on without a match: the index of the
\* bye in poolPlayers (remainingPlayers.shift()).
ByeIndexLast(poolPlayers) == Len(poolPlayers)
ByeIndex(poolPlayers) == 1

\* if (existingResult?.winner_id) { const winner = participants.find(...);
\*   if (winner) nextRoundPlayers.push(winner); }
PushWinnerBoth(nextRoundPlayers, match, winner) ==
    IF match.winner_id # Undefined
    THEN nextRoundPlayers \o <<match.player1, match.player2>>
    ELSE nextRoundPlayers
PushWinner(nextRoundPlayers, match, winner) ==
    IF match.winner_id # Undefined /\ winner # NoPlayer
    THEN Append(nextRoundPlayers, winner) ELSE nextRoundPlayers

\* The while loop of one round: pairs remainingPlayers two by two.
RECURSIVE RoundLoop(_, _, _, _, _, _, _)
RoundLoop(remainingPlayers, nextRoundPlayers, matchesArray, roundIndex, poolName, results, parts) ==
    IF Len(remainingPlayers) = 0
    THEN [matches |-> matchesArray, next |-> nextRoundPlayers]
    ELSE IF Len(remainingPlayers) = 1
    THEN \* player2 is undefined: no match is made of a lone player
         [matches |-> matchesArray, next |-> nextRoundPlayers]
    ELSE With(KnockoutMatchId(KnockoutPoolNumber(poolName), roundIndex,
                              Len(matchesArray)), LAMBDA matchId :
         With(FindResult(results, matchId), LAMBDA existingResult :
         With(KnockoutMatch(matchId, remainingPlayers[1], remainingPlayers[2],
                            existingResult.winner_id,
                            KnockoutStageLabel(roundIndex, Len(matchesArray))),
              LAMBDA match :
         With(FindPlayer(parts, existingResult.winner_id), LAMBDA winner :
         With(PushWinner(nextRoundPlayers, match, winner), LAMBDA next :
         With(SubSeq(remainingPlayers, 3, Len(remainingPlayers)), LAMBDA rest :
         With(Append(matchesArray, match), LAMBDA grown :
             RoundLoop(rest, next, grown, roundIndex, poolName, results,
                       parts))))))))

RECURSIVE createKnockoutMatchesForPool(_, _, _, _, _)
createKnockoutMatchesForPool(poolPlayers, poolName, matchesArray, results, parts) ==
    IF Len(poolPlayers) <= 1 THEN matchesArray
    ELSE With(RoundIndex(matchesArray, poolPlayers), LAMBDA roundIndex :
         With(Len(poolPlayers) % 2 # 0, LAMBDA odd :
         With(ByeIndex(poolPlayers), LAMBDA bye :
         With(IF odd THEN <<poolPlayers[bye]>> ELSE <<>>, LAMBDA nextRoundPlayers :
         With(IF odd THEN RemoveAt(poolPlayers, bye) ELSE poolPlayers,
              LAMBDA remainingPlayers :
         With(RoundLoop(remainingPlayers, nextRoundPlayers, matchesArray,
                        roundIndex, poolName, results, parts), LAMBDA round :
             IF Len(round.next) > 1
             THEN With(round.next, LAMBDA advancing :
                  With(round.matches, LAMBDA made :
                      createKnockoutMatchesForPool(advancing, poolName, made,
                                                   results, parts)))
             ELSE round.matches))))))

\* A render's state as a handler or an effect created in it reads it.
MakeView(parts, ps, results, pkm, fm) ==
    [participants |-> parts, pools |-> ps, matchResults |-> results,
     poolKnockoutMatches |-> pkm, finalMatch |-> fm]

\* generateKnockoutMatches' value for setPoolKnockoutMatches.
generateKnockoutMatches(v) ==
    [poolName \in {"Pool A", "Pool B"} |->
        With(getPoolWinners(poolName, v.pools, v.matchResults, v.participants),
             LAMBDA poolWinners :
                 createKnockoutMatchesForPool(poolWinners, poolName, <<>>,
                                              v.matchResults, v.participants))]

\* ----------------------------------------------------- finalist resolution
AppearanceCount(knockoutMatches, id) ==
    Cardinality({i \in 1..Len(knockoutMatches) :
                    \/ knockoutMatches[i].player1.id = id
                    \/ knockoutMatches[i].player2.id = id})

\* finalRoundMatches.find(m => m.winner_id)
FinalRoundPickLast(finalRoundMatches) ==
    LET hits == {i \in 1..Len(finalRoundMatches) :
                    finalRoundMatches[i].winner_id # Undefined}
    IN IF hits = {} THEN 0 ELSE CHOOSE i \in hits : \A j \in hits : j <= i
FinalRoundPick(finalRoundMatches) ==
    FindIndex(finalRoundMatches, LAMBDA m : m.winner_id # Undefined)

getPoolFinalWinner(poolName, v) ==
    With(getPoolWinners(poolName, v.pools, v.matchResults, v.participants),
         LAMBDA poolWinners :
    With(v.poolKnockoutMatches[poolName], LAMBDA knockoutMatches :
    With(Filter(knockoutMatches, LAMBDA m : m.winner_id # Undefined),
         LAMBDA completedMatches :
    With(Filter(knockoutMatches,
                LAMBDA match :
                    \/ AppearanceCount(knockoutMatches, match.player1.id) > 1
                    \/ AppearanceCount(knockoutMatches, match.player2.id) > 1),
         LAMBDA finalRoundMatches :
    With(FinalRoundPick(finalRoundMatches), LAMBDA pick :
        IF Len(poolWinners) = 0 THEN NoPlayer
        ELSE IF Len(knockoutMatches) = 0
        THEN (IF Len(poolWinners) = 1 THEN poolWinners[1] ELSE NoPlayer)
        ELSE IF Len(completedMatches) = 0 THEN NoPlayer
        ELSE IF Len(finalRoundMatches) > 0 /\ pick # 0
        THEN FindPlayer(v.participants, finalRoundMatches[pick].winner_id)
        ELSE FindPlayer(v.participants,
                        completedMatches[Len(completedMatches)].winner_id))))))

\* ------------------------------------------------------- render and effects
\* finalMatch === null
Null == KnockoutMatch(<<>>, NoPlayer, NoPlayer, Undefined, <<>>)

\* if (poolAFinalWinner && poolBFinalWinner)
BothFinalistsEither(a, b) == a # NoPlayer \/ b # NoPlayer
BothFinalists(a, b) == a # NoPlayer /\ b # NoPlayer

\* The effect on [poolKnockoutMatches, matchResults]: the value finalMatch
\* has after it ran in render v.
FinalMatchEffect(v) ==
    With(getPoolFinalWinner("Pool A", v), LAMBDA poolAFinalWinner :
    With(getPoolFinalWinner("Pool B", v), LAMBDA poolBFinalWinner :
    With(FindResult(v.matchResults, FinalStageId), LAMBDA existingFinalResult :
        IF BothFinalists(poolAFinalWinner, poolBFinalWinner)
        THEN KnockoutMatch(FinalStageId, poolAFinalWinner, poolBFinalWinner,
                           existingFinalResult.winner_id, <<"Championship Final">>)
        ELSE v.finalMatch)))

\* The render that follows a batch of state updates, and the effects it runs:
\* view is the state after the updates, changed the state names that were
\* set, perm the shuffle generatePools draws if it runs.
RunEffects(view, changed, perm) ==
    With(view, LAMBDA v :
        LET onParticipants == "participants" \in changed /\ Len(v.participants) > 0
            onResults == /\ changed \cap {"matchResults", "participants"} # {}
                         /\ Len(v.matchResults) > 0 /\ Len(v.participants) > 0
            onBracket == changed \cap {"poolKnockoutMatches", "matchResults"} # {}
            regenerated == onParticipants \/ onResults
        IN With([v EXCEPT
                   !.pools = IF onParticipants
                             THEN generatePools(v.participants, perm) ELSE @,
                   !.poolKnockoutMatches = IF regenerated
                                           THEN generateKnockoutMatches(v) ELSE @,
                   !.finalMatch = IF onBracket THEN FinalMatchEffect(v) ELSE @],
                LAMBDA v1 :
                    IF regenerated
                    THEN [v1 EXCEPT !.finalMatch = FinalMatchEffect(v1)]
                    ELSE v1))

IdPerm(n) == [i \in 1..n |-> i]

\* ------------------------------------------------------------- the store
SummaryRow(id, groupName, playerId, resultType, position) ==
    [id |-> id, group_name |-> groupName, player_id |-> playerId,
     result_type |-> resultType, position |-> position]
ClubbedRow(id, playerId, rank) == [id |-> id, player_id |-> playerId, rank |-> rank]

\* .select().eq(...).single(): the row when exactly one matches; none or
\* several is error PGRST116 and no data.
Single(rows) == IF Len(rows) = 1 THEN rows[1] ELSE NoRow

\* .update(fields).eq('id', id) on sub_event_match_results
UpdateRows(rows, id, Change(_)) ==
    [i \in 1..Len(rows) |-> IF rows[i].id = id THEN Change(rows[i]) ELSE rows[i]]

\* ------------------------------------------------------ one editor's state
Idle == [op |-> "idle"]
EmptyMap == [k \in {} |-> Undefined]
Lookup(f, k) == IF k \in DOMAIN f THEN f[k] ELSE Undefined
Put(f, k, x) == [j \in DOMAIN f \cup {k} |-> IF j = k THEN x ELSE f[j]]

\* poolKnockoutMatches[poolName] || [] of the initial {}
FreshPkm == [poolName \in {"Pool A", "Pool B"} |-> <<>>]
\* The first render: every useState at its initial value.
MountView == MakeView(<<>>, <<>>, <<>>, FreshPkm, Null)

View(e) == MakeView(participants[e], pools[e], matchResults[e],
                    poolKnockoutMatches[e], finalMatch[e])
\* What a handler in flight still reads of the render it was created in.
Closure(e) == [participants |-> participants[e], pools |-> pools[e],
               matchResults |-> matchResults[e]]

Commit(e, view) ==
    \E v \in {view} :
        /\ participants' = [participants EXCEPT ![e] = v.participants]
        /\ pools' = [pools EXCEPT ![e] = v.pools]
        /\ matchResults' = [matchResults EXCEPT ![e] = v.matchResults]
        /\ poolKnockoutMatches' =
               [poolKnockoutMatches EXCEPT ![e] = v.poolKnockoutMatches]
        /\ finalMatch' = [finalMatch EXCEPT ![e] = v.finalMatch]

Rosters(n, assocs) ==
    {[i \in 1..n |-> PlayerData(i, a[i])] : a \in [1..n -> assocs]}
\* The rosters of n participants of associations X and Y, one per number of
\* X participants (every order of a roster comes from the shuffle).
RostersXY(n) ==
    {[i \in 1..n |-> PlayerData(i, IF i <= k THEN "X" ELSE "Y")] : k \in (n + 1) \div 2..n}

InitStore ==
    /\ dbMatch = <<>>
    /\ dbSummary = <<>>
    /\ dbClubbed = <<>>
    /\ nextId = [match |-> 1, summary |-> 1, clubbed |-> 1]

\* Every editor freshly mounted: state at its initial values, the mount
\* effect's fetchSubEventAndParticipants and fetchMatchResults in flight.
InitEditors ==
    /\ participants = [e \in Editors |-> <<>>]
    /\ pools = [e \in Editors |-> <<>>]
    /\ matchResults = [e \in Editors |-> <<>>]
    /\ selectedWinners = [e \in Editors |-> EmptyMap]
    /\ poolKnockoutMatches = [e \in Editors |-> FreshPkm]
    /\ finalMatch = [e \in Editors |-> Null]
    /\ thirdPlaceSelections = [e \in Editors |-> EmptyMap]
    /\ pending = [e \in Editors |-> [participants |-> TRUE, inner |-> FALSE,
                                      mount |-> TRUE]]
    /\ pc = [e \in Editors |-> Idle]

Init ==
    /\ \E n \in 0..MaxRoster : roster \in RostersXY(n)
    /\ InitStore
    /\ InitEditors

\* ------------------------------------------------------------ initial load
\* fetchSubEventAndParticipants: setParticipants(formattedParticipants), then
\* Promise.all([fetchMatchResults(), ...]).
FetchParticipantsDone(e) ==
    /\ pending[e].participants
    /\ \E perm \in Permutations(1..Len(roster)) :
          Commit(e, RunEffects([View(e) EXCEPT !.participants = roster],
                               {"participants"}, perm))
    /\ pending' = [pending EXCEPT ![e].participants = FALSE, ![e].inner = TRUE]
    /\ UNCHANGED <<storeVars, selectedWinners, thirdPlaceSelections, pc>>

\* fetchMatchResults as an async function of render `closure`: its effect on
\* the state v once the select returned data.
FetchMatchResultsApply(v, data, closure) ==
    With([v EXCEPT !.matchResults = data], LAMBDA v1 :
        IF Len(data) > 0
        THEN RunEffects([v1 EXCEPT !.poolKnockoutMatches =
                                       generateKnockoutMatches(closure)],
                        {"matchResults", "poolKnockoutMatches"}, IdPerm(0))
        ELSE RunEffects(v1, {"matchResults"}, IdPerm(0)))

\* A fetchMatchResults the mount effect ("mount") or
\* fetchSubEventAndParticipants ("inner") began; after the inner one
\* fetchSubEventAndParticipants ends with setLoading(false).
FetchMatchResultsDone(e) ==
    /\ \E which \in {"mount", "inner"} :
          /\ pending[e][which]
          /\ pending' = [pending EXCEPT ![e][which] = FALSE]
    /\ Commit(e, FetchMatchResultsApply(View(e), dbMatch, MountView))
    /\ UNCHANGED <<storeVars, selectedWinners, thirdPlaceSelections, pc>>

\* if (loading) return <spinner>: nothing of the view can be used while
\* fetchSubEventAndParticipants runs; and the editor starts one operation
\* at a time.
Interactive(e) ==
    /\ pc[e] = Idle
    /\ ~pending[e].participants /\ ~pending[e].inner

\* ------------------------------------------------------- the two buttons
\* generatePools(players): setPools of a fresh shuffle.
GeneratePools(e) ==
    /\ \E perm \in Permutations(1..Len(participants[e])) :
          pools' = [pools EXCEPT ![e] = generatePools(participants[e], perm)]
    /\ UNCHANGED <<storeVars, participants, matchResults, selectedWinners,
                   poolKnockoutMatches, finalMatch, thirdPlaceSelections,
                   pending, pc>>

\* Button "Regenerate Pools"
RegeneratePoolsClick(e) ==
    /\ Interactive(e)
    /\ Len(participants[e]) > 0
    /\ GeneratePools(e)

\* Button "Regenerate Knockout Matches"
RegenerateKnockoutClick(e) ==
    /\ Interactive(e)
    /\ Len(participants[e]) > 0
    /\ Commit(e, RunEffects([View(e) EXCEPT !.poolKnockoutMatches =
                                               generateKnockoutMatches(View(e))],
                            {"poolKnockoutMatches"}, IdPerm(0)))
    /\ UNCHANGED <<storeVars, selectedWinners, thirdPlaceSelections, pending, pc>>

\* ------------------------------------------------------ group-stage winner
\* The group cards that show the winner Select and the Save Winner button:
\* group.players.length === 2 && !matchResult
OpenGroups(e) ==
    UNION {{<<pi, gi>> : gi \in
               {g \in 1..Len(pools[e][pi].groups) :
                   /\ Len(pools[e][pi].groups[g].players) = 2
                   /\ getMatchResult(pools[e][pi].name,
                                     pools[e][pi].groups[g].name,
                                     matchResults[e]) = NoRow}} :
           pi \in 1..Len(pools[e])}

\* handleWinnerSelection(groupId, winnerId), from the group's Select
handleWinnerSelection(e) ==
    /\ Interactive(e)
    /\ \E g \in OpenGroups(e) :
          LET pool == pools[e][g[1]]
              group == pool.groups[g[2]]
          IN \E k \in 1..2 :
                selectedWinners' =
                    [selectedWinners EXCEPT
                        ![e] = Put(@, GroupStageId(pool.name, group.name),
                                   group.players[k].id)]
    /\ UNCHANGED <<storeVars, participants, pools, matchResults,
                   poolKnockoutMatches, finalMatch, thirdPlaceSelections,
                   pending, pc>>

\* The row handleSaveWinner's update writes over an existing result.
SaveWinnerUpdate(row, p) ==
    [row EXCEPT !.player1_id = p.player1_id, !.player2_id = p.player2_id,
                !.winner_id = p.winner_id]

\* handleSaveWinner(pool, group, players), up to the select that looks for an
\* existing result of the group.
SaveWinnerCheck(e) ==
    /\ Interactive(e)
    /\ \E g \in OpenGroups(e) :
          LET pool == pools[e][g[1]]
              group == pool.groups[g[2]]
              groupId == GroupStageId(pool.name, group.name)
              winnerId == Lookup(selectedWinners[e], groupId)
              existingResults ==
                  Single(Filter(dbMatch, LAMBDA r : r.match_stage = groupId))
          IN /\ Len(group.players) >= 2
             /\ winnerId # Undefined
             /\ pc' = [pc EXCEPT ![e] =
                          [op |-> "saveWinner", step |-> "write",
                           match_stage |-> groupId,
                           player1_id |-> group.players[1].id,
                           player2_id |-> group.players[2].id,
                           winner_id |-> winnerId,
                           existing |-> existingResults.id,
                           view |-> Closure(e)]]
    /\ UNCHANGED <<storeVars, uiVars, pending>>

\* if (error) { console.error(...); return; } after the write of a match
\* result: the handler is over, nothing was stored and no state was set.
MatchWriteErrorAfterLog(e) ==
    /\ pc' = [pc EXCEPT ![e] = Idle]
    /\ matchResults' = [matchResults EXCEPT ![e] = Append(@, NoRow)]
    /\ UNCHANGED <<dbMatch, nextId, participants, pools, selectedWinners,
                   poolKnockoutMatches, finalMatch, thirdPlaceSelections>>
MatchWriteError(e) ==
    /\ pc' = [pc EXCEPT ![e] = Idle]
    /\ UNCHANGED <<dbMatch, nextId, uiVars>>

\* ... the update of the existing result, or the insert of a new one and
\* setMatchResults(prev => [...prev, ...data]).
SaveWinnerWrite(e) ==
    /\ pc[e] # Idle /\ pc[e].op = "saveWinner" /\ pc[e].step = "write"
    /\ \E ok \in BOOLEAN :
          LET p == pc[e]
              row == MatchRow(nextId.match, p.match_stage, p.player1_id,
                              p.player2_id, p.winner_id)
          IN IF ~ok
             THEN MatchWriteError(e)
             ELSE /\ pc' = [pc EXCEPT ![e].step = "summaryCheck"]
                  /\ IF p.existing # Undefined
                     THEN /\ dbMatch' = UpdateRows(dbMatch, p.existing,
                                           LAMBDA r : SaveWinnerUpdate(r, p))
                          /\ UNCHANGED <<nextId, uiVars>>
                     ELSE /\ dbMatch' = Append(dbMatch, row)
                          /\ nextId' = [nextId EXCEPT !.match = @ + 1]
                          /\ Commit(e, RunEffects(
                                 [View(e) EXCEPT !.matchResults = Append(@, row)],
                                 {"matchResults"}, IdPerm(0)))
                          /\ UNCHANGED <<selectedWinners, thirdPlaceSelections>>
    /\ UNCHANGED <<roster, dbSummary, dbClubbed, pending>>

\* The synchronous generateKnockoutMatches() of a handler created in render
\* `closure`, and the render that follows it.
RegenerateFromClosure(e, closure) ==
    Commit(e, RunEffects([View(e) EXCEPT !.poolKnockoutMatches =
                                            generateKnockoutMatches(closure)],
                         {"poolKnockoutMatches"}, IdPerm(0)))

\* ... the select that looks for the winner's summary result; when there is
\* one, on to generateKnockoutMatches() and fetchMatchResults().
SaveWinnerSummaryCheck(e) ==
    /\ pc[e] # Idle /\ pc[e].op = "saveWinner" /\ pc[e].step = "summaryCheck"
    /\ LET p == pc[e]
           existingSummary ==
               Single(Filter(dbSummary,
                             LAMBDA r : /\ r.group_name = p.match_stage
                                        /\ r.player_id = p.winner_id))
       IN IF existingSummary = NoRow
          THEN /\ pc' = [pc EXCEPT ![e].step = "summaryInsert"]
               /\ UNCHANGED uiVars
          ELSE /\ pc' = [pc EXCEPT ![e].step = "refresh"]
               /\ RegenerateFromClosure(e, p.view)
               /\ UNCHANGED <<selectedWinners, thirdPlaceSelections>>
    /\ UNCHANGED <<storeVars, pending>>

\* saveSummaryResult: the insert into sub_event_summary_results; an error is
\* logged and the caller goes on.
InsertSummaryReplacing(groupName, playerId, resultType, position) ==
    /\ dbSummary' = <<SummaryRow(nextId.summary, groupName, playerId,
                                 resultType, position)>>
    /\ nextId' = [nextId EXCEPT !.summary = @ + 1]
InsertSummary(groupName, playerId, resultType, position) ==
    /\ dbSummary' = Append(dbSummary,
                           SummaryRow(nextId.summary, groupName, playerId,
                                      resultType, position))
    /\ nextId' = [nextId EXCEPT !.summary = @ + 1]

\* saveClubbedResult: the insert into sub_event_clubbed_results.
InsertClubbed(found, playerId, rank) ==
    IF found
    THEN /\ dbClubbed' = Append(dbClubbed, ClubbedRow(nextId.clubbed, playerId, rank))
         /\ nextId' = [nextId EXCEPT !.clubbed = @ + 1]
    ELSE UNCHANGED <<dbClubbed, nextId>>

\* ... saveSummaryResult(groupId, winnerId, 'pool', 'winner'), then
\* generateKnockoutMatches().
SaveWinnerSummaryInsert(e) ==
    /\ pc[e] # Idle /\ pc[e].op = "saveWinner" /\ pc[e].step = "summaryInsert"
    /\ InsertSummary(pc[e].match_stage, pc[e].winner_id, "pool", "winner")
    /\ pc' = [pc EXCEPT ![e].step = "refresh"]
    /\ RegenerateFromClosure(e, pc[e].view)
    /\ UNCHANGED <<roster, dbMatch, dbClubbed, selectedWinners,
                   thirdPlaceSelections, pending>>

\* ... fetchMatchResults() at the end of a handler created in pc[e].view.
HandlerRefresh(e) ==
    /\ pc' = [pc EXCEPT ![e] = Idle]
    /\ Commit(e, FetchMatchResultsApply(View(e), dbMatch, pc[e].view))
    /\ UNCHANGED <<storeVars, selectedWinners, thirdPlaceSelections, pending>>

SaveWinnerRefresh(e) ==
    /\ pc[e] # Idle /\ pc[e].op = "saveWinner" /\ pc[e].step = "refresh"
    /\ HandlerRefresh(e)

\* ---------------------------------------------------------- knockout winner
\* matchId.includes('knockout') && matchId.includes('Round 2')
IsSemifinalId(matchId) ==
    Includes(matchId, <<"knockout">>) /\ Includes(matchId, <<"Round", " ", "2">>)

\* The knockout cards that show the winner Select:
\* !matchResult && match.player1 && match.player2
OpenKnockoutMatches(e) ==
    UNION {{<<poolName, i>> : i \in
               {j \in 1..Len(poolKnockoutMatches[e][poolName]) :
                   /\ FindResult(matchResults[e],
                                 poolKnockoutMatches[e][poolName][j].id) = NoRow
                   /\ poolKnockoutMatches[e][poolName][j].player1 # NoPlayer
                   /\ poolKnockoutMatches[e][poolName][j].player2 # NoPlayer}} :
           poolName \in {"Pool A", "Pool B"}}

\* handleKnockoutWinnerSelection(matchId, winnerId, player1Id, player2Id), from
\* a knockout match's Select.  Its one store call on the path the view
\* offers is the insert; the update is the path of a result already in the
\* editor's log.
handleKnockoutWinnerSelection(e) ==
    /\ Interactive(e)
    /\ \E m \in OpenKnockoutMatches(e), k \in 1..2, ok \in BOOLEAN :
          LET match == poolKnockoutMatches[e][m[1]][m[2]]
              matchId == match.id
              player1Id == match.player1.id
              player2Id == match.player2.id
              winnerId == IF k = 1 THEN player1Id ELSE player2Id
              existingResult == FindResult(matchResults[e], matchId)
              row == MatchRow(nextId.match, matchId, player1Id, player2Id, winnerId)
              loserId == IF winnerId = player1Id THEN player2Id ELSE player1Id
              loserPlayer == FindPlayer(participants[e], loserId)
              existingSemifinalist ==
                  Filter(dbSummary, LAMBDA r : /\ r.player_id = loserId
                                               /\ r.position = "semi_finalist")
              semifinal == /\ IsSemifinalId(matchId)
                           /\ loserPlayer # NoPlayer
                           /\ Len(existingSemifinalist) = 0
              stale == generateKnockoutMatches(View(e))
          IN IF ~ok
             THEN MatchWriteError(e) /\ UNCHANGED dbSummary
             ELSE IF existingResult # NoRow
             THEN /\ dbMatch' = UpdateRows(dbMatch, existingResult.id,
                                   LAMBDA r : [r EXCEPT !.winner_id = winnerId])
                  /\ Commit(e, RunEffects(
                         [View(e) EXCEPT !.poolKnockoutMatches = stale],
                         {"poolKnockoutMatches"}, IdPerm(0)))
                  /\ UNCHANGED <<dbSummary, nextId, selectedWinners,
                                 thirdPlaceSelections>>
             ELSE /\ dbMatch' = Append(dbMatch, row)
                  /\ IF semifinal
                     THEN /\ dbSummary' = Append(dbSummary,
                                 SummaryRow(nextId.summary, matchId, loserId,
                                            "pool", "semi_finalist"))
                          /\ nextId' = [nextId EXCEPT !.match = @ + 1,
                                                      !.summary = @ + 1]
                     ELSE /\ nextId' = [nextId EXCEPT !.match = @ + 1]
                          /\ UNCHANGED dbSummary
                  /\ Commit(e, RunEffects(
                         [View(e) EXCEPT
                             !.matchResults = Append(matchResults[e], row),
                             !.poolKnockoutMatches = stale],
                         {"matchResults", "poolKnockoutMatches"}, IdPerm(0)))
                  /\ UNCHANGED <<selectedWinners, thirdPlaceSelections>>
    /\ UNCHANGED <<roster, dbClubbed, pending, pc>>

\* --------------------------------------------------------- championship
\* handleFinalWinnerSelection(winnerId), from the final's Select, up to the
\* insert of the `final` result, setMatchResults and setFinalMatch.
FinalInsert(e) ==
    /\ Interactive(e)
    /\ finalMatch[e] # Null
    /\ finalMatch[e].player1 # NoPlayer /\ finalMatch[e].player2 # NoPlayer
    /\ FindResult(matchResults[e], FinalStageId).winner_id = Undefined
    /\ finalMatch[e].winner_id = Undefined
    /\ \E k \in 1..2, ok \in BOOLEAN :
          LET player1Id == finalMatch[e].player1.id
              player2Id == finalMatch[e].player2.id
              winnerId == IF k = 1 THEN player1Id ELSE player2Id
              runnerId == IF winnerId = player1Id THEN player2Id ELSE player1Id
              row == MatchRow(nextId.match, FinalStageId, player1Id, player2Id,
                              winnerId)
          IN IF ~ok
             THEN MatchWriteError(e)
             ELSE /\ dbMatch' = Append(dbMatch, row)
                  /\ nextId' = [nextId EXCEPT !.match = @ + 1]
                  /\ Commit(e, RunEffects(
                         [View(e) EXCEPT
                             !.matchResults = Append(matchResults[e], row),
                             !.finalMatch = [@ EXCEPT !.winner_id = winnerId]],
                         {"matchResults"}, IdPerm(0)))
                  /\ pc' = [pc EXCEPT ![e] =
                               [op |-> "final", step |-> "winnerSummary",
                                winner_id |-> winnerId, runner_id |-> runnerId,
                                view |-> Closure(e)]]
                  /\ UNCHANGED <<selectedWinners, thirdPlaceSelections>>
    /\ UNCHANGED <<roster, dbSummary, dbClubbed, pending>>

\* ... saveSummaryResult('Final', winnerId, 'final', 'winner')
FinalWinnerSummary(e) ==
    /\ pc[e] # Idle /\ pc[e].op = "final" /\ pc[e].step = "winnerSummary"
    /\ InsertSummary(<<"Final">>, pc[e].winner_id, "final", "winner")
    /\ pc' = [pc EXCEPT ![e].step = "runnerSummary"]
    /\ UNCHANGED <<roster, dbMatch, dbClubbed, uiVars, pending>>

\* ... saveSummaryResult('Final', runnerId, 'final', 'runner_up')
FinalRunnerSummary(e) ==
    /\ pc[e] # Idle /\ pc[e].op = "final" /\ pc[e].step = "runnerSummary"
    /\ InsertSummary(<<"Final">>, pc[e].runner_id, "final", "runner_up")
    /\ pc' = [pc EXCEPT ![e].step = "winnerClubbed"]
    /\ UNCHANGED <<roster, dbMatch, dbClubbed, uiVars, pending>>

\* ... if (winnerPlayer) saveClubbedResult(winnerId, '1st', ...)
FinalWinnerClubbed(e) ==
    /\ pc[e] # Idle /\ pc[e].op = "final" /\ pc[e].step = "winnerClubbed"
    /\ InsertClubbed(FindPlayer(pc[e].view.participants,
                                pc[e].winner_id) # NoPlayer,
                     pc[e].winner_id, "1st")
    /\ pc' = [pc EXCEPT ![e].step = "runnerClubbed"]
    /\ UNCHANGED <<roster, dbMatch, dbSummary, uiVars, pending>>

\* ... if (runnerPlayer) saveClubbedResult(runnerId, '2nd', ...)
FinalRunnerClubbed(e) ==
    /\ pc[e] # Idle /\ pc[e].op = "final" /\ pc[e].step = "runnerClubbed"
    /\ InsertClubbed(FindPlayer(pc[e].view.participants,
                                pc[e].runner_id) # NoPlayer,
                     pc[e].runner_id, "2nd")
    /\ pc' = [pc EXCEPT ![e].step = "refresh"]
    /\ UNCHANGED <<roster, dbMatch, dbSummary, uiVars, pending>>

\* ... await fetchMatchResults()
FinalRefresh(e) ==
    /\ pc[e] # Idle /\ pc[e].op = "final" /\ pc[e].step = "refresh"
    /\ HandlerRefresh(e)

\* ------------------------------------------------------------- third place
\* The pools whose card shows the third-place Select:
\* getPoolWinners(poolName).length > 0 && !getThirdPlaceResult(poolName)
OpenThirdPlace(e) ==
    {poolName \in {"Pool A", "Pool B"} :
        /\ Len(getPoolWinners(poolName, pools[e], matchResults[e],
                              participants[e])) > 0
        /\ getThirdPlaceResult(poolName, matchResults[e]) = NoRow}

\* The Select's items: the pool's winners without the pool's final winner.
ThirdPlaceCandidates(e, poolName) ==
    LET poolWinner == getPoolFinalWinner(poolName, View(e))
    IN Filter(getPoolWinners(poolName, pools[e], matchResults[e], participants[e]),
              LAMBDA player : IF poolWinner # NoPlayer
                              THEN player.id # poolWinner.id ELSE TRUE)

\* handleThirdPlaceSelection(pool, playerId)
handleThirdPlaceSelection(e) ==
    /\ Interactive(e)
    /\ \E poolName \in OpenThirdPlace(e) :
          \E player \in Range(ThirdPlaceCandidates(e, poolName)) :
             thirdPlaceSelections' =
                 [thirdPlaceSelections EXCEPT ![e] = Put(@, poolName, player.id)]
    /\ UNCHANGED <<storeVars, participants, pools, matchResults, selectedWinners,
                   poolKnockoutMatches, finalMatch, pending, pc>>

\* saveThirdPlace(pool, playerId), from "Save 3rd Place", up to the insert of
\* the third-place result and setMatchResults.
ThirdPlaceInsert(e) ==
    /\ Interactive(e)
    /\ \E pool \in OpenThirdPlace(e), ok \in BOOLEAN :
          LET playerId == Lookup(thirdPlaceSelections[e], pool)
              row == MatchRow(nextId.match, ThirdPlaceStageId(pool), playerId,
                              playerId, playerId)
          IN /\ playerId # Undefined
             /\ IF ~ok
                THEN MatchWriteError(e)
                ELSE /\ dbMatch' = Append(dbMatch, row)
                     /\ nextId' = [nextId EXCEPT !.match = @ + 1]
                     /\ Commit(e, RunEffects(
                            [View(e) EXCEPT
                                !.matchResults = Append(matchResults[e], row)],
                            {"matchResults"}, IdPerm(0)))
                     /\ pc' = [pc EXCEPT ![e] =
                                  [op |-> "thirdPlace", step |-> "summaryCheck",
                                   pool |-> pool, player_id |-> playerId,
                                   view |-> Closure(e)]]
                     /\ UNCHANGED <<selectedWinners, thirdPlaceSelections>>
    /\ UNCHANGED <<roster, dbSummary, dbClubbed, pending>>

\* .select('*').eq('player_id', playerId).eq('position', 'bronze')
ExistingBronzeNone(rows, playerId) == <<>>
ExistingBronze(rows, playerId) ==
    Filter(rows, LAMBDA r : r.player_id = playerId /\ r.position = "bronze")

\* ... the select of the player's bronze summary results.
ThirdPlaceSummaryCheck(e) ==
    /\ pc[e] # Idle /\ pc[e].op = "thirdPlace" /\ pc[e].step = "summaryCheck"
    /\ LET existingSummary == ExistingBronze(dbSummary, pc[e].player_id)
       IN pc' = [pc EXCEPT ![e] =
                    IF Len(existingSummary) = 0
                    THEN [@ EXCEPT !.step = "summaryInsert"] ELSE Idle]
    /\ UNCHANGED <<storeVars, uiVars, pending>>

\* ... saveSummaryResult(pool, playerId, 'pool', 'bronze')
ThirdPlaceSummaryInsert(e) ==
    /\ pc[e] # Idle /\ pc[e].op = "thirdPlace" /\ pc[e].step = "summaryInsert"
    /\ InsertSummary(<<pc[e].pool>>, pc[e].player_id, "pool", "bronze")
    /\ pc' = [pc EXCEPT ![e] =
                 IF FindPlayer(@.view.participants, @.player_id) # NoPlayer
                 THEN [@ EXCEPT !.step = "clubbed"] ELSE Idle]
    /\ UNCHANGED <<roster, dbMatch, dbClubbed, uiVars, pending>>

\* ... saveClubbedResult(playerId, '3rd', ...)
ThirdPlaceClubbed(e) ==
    /\ pc[e] # Idle /\ pc[e].op = "thirdPlace" /\ pc[e].step = "clubbed"
    /\ InsertClubbed(TRUE, pc[e].player_id, "3rd")
    /\ pc' = [pc EXCEPT ![e] = Idle]
    /\ UNCHANGED <<roster, dbMatch, dbSummary, uiVars, pending>>

\* --------------------------------------------- manual results and deletion
\* .delete().eq('id', result.id)
DeleteByIdAll(rows, id) == <<>>
DeleteById(rows, id) == Filter(rows, LAMBDA r : r.id # id)

\* The Delete button of a summary result's row (confirm accepted): the row
\* clicked is one the store holds.
SummaryDeleteClick(e) ==
    /\ Interactive(e)
    /\ \E i \in 1..Len(dbSummary) :
          dbSummary' = DeleteById(dbSummary, dbSummary[i].id)
    /\ UNCHANGED <<roster, dbMatch, dbClubbed, nextId, uiVars, pending, pc>>

\* The Delete button of a clubbed result's row.
ClubbedDeleteClick(e) ==
    /\ Interactive(e)
    /\ \E i \in 1..Len(dbClubbed) :
          dbClubbed' = DeleteById(dbClubbed, dbClubbed[i].id)
    /\ UNCHANGED <<roster, dbMatch, dbSummary, nextId, uiVars, pending, pc>>

\* '' of a text field, and a text typed into the Group field.
Empty == <<>>
\* What summaryFormData can hold when Add Summary Result is clicked.
SummaryForms(e) ==
    [groupName : {Empty, <<"Pool A">>},
     playerId : {Undefined} \cup {p.id : p \in Range(participants[e])},
     resultType : {"", "pool"},
     position : {"", "bronze"}]
\* What clubbedFormData can hold when Add Clubbed Result is clicked.
ClubbedForms(e) ==
    [playerId : {Undefined} \cup {p.id : p \in Range(participants[e])},
     rank : {"", "3rd"}]

\* summaryFormData.groupName && summaryFormData.playerId &&
\* summaryFormData.resultType && summaryFormData.position
SummaryFormCompleteAlways(form) == TRUE
SummaryFormComplete(form) ==
    /\ form.groupName # Empty
    /\ form.playerId # Undefined
    /\ form.resultType # ""
    /\ form.position # ""

\* clubbedFormData.playerId && clubbedFormData.rank
ClubbedFormComplete(form) == form.playerId # Undefined /\ form.rank # ""

\* Button "Add Summary Result" clicked with the form as it stands.
AddSummaryCall(e) ==
    /\ Interactive(e)
    /\ nextId.summary <= MaxManualRows
    /\ \E form \in SummaryForms(e) :
          pc' = [pc EXCEPT ![e] = [op |-> "addSummary", step |-> "entry",
                                   form |-> form]]
    /\ UNCHANGED <<storeVars, uiVars, pending>>

\* ... the handler: saveSummaryResult of a complete form, else the alert.
AddSummaryEntry(e) ==
    /\ pc[e] # Idle /\ pc[e].op = "addSummary" /\ pc[e].step = "entry"
    /\ LET form == pc[e].form
       IN IF SummaryFormComplete(form)
          THEN InsertSummary(form.groupName, form.playerId, form.resultType,
                             form.position)
          ELSE UNCHANGED <<dbSummary, nextId>>
    /\ pc' = [pc EXCEPT ![e] = Idle]
    /\ UNCHANGED <<roster, dbMatch, dbClubbed, uiVars, pending>>

\* Button "Add Clubbed Result" clicked with the form as it stands.
AddClubbedCall(e) ==
    /\ Interactive(e)
    /\ nextId.clubbed <= MaxManualRows
    /\ \E form \in ClubbedForms(e) :
          pc' = [pc EXCEPT ![e] = [op |-> "addClubbed", step |-> "entry",
                                   form |-> form]]
    /\ UNCHANGED <<storeVars, uiVars, pending>>

\* ... the handler: saveClubbedResult of a complete form, else the alert.
AddClubbedEntry(e) ==
    /\ pc[e] # Idle /\ pc[e].op = "addClubbed" /\ pc[e].step = "entry"
    /\ InsertClubbed(ClubbedFormComplete(pc[e].form), pc[e].form.playerId,
                     pc[e].form.rank)
    /\ pc' = [pc EXCEPT ![e] = Idle]
    /\ UNCHANGED <<roster, dbMatch, dbSummary, uiVars, pending>>

ManualResults(e) ==
    \/ AddSummaryCall(e)
    \/ AddSummaryEntry(e)
    \/ AddClubbedCall(e)
    \/ AddClubbedEntry(e)

Deletion(e) ==
    \/ SummaryDeleteClick(e)
    \/ ClubbedDeleteClick(e)

\* ------------------------------------------------------ requests as called
\* handleSaveWinner(pool.name, group.name, group.players) called for a group
\* that has no result in the log.  (The view renders the button for groups
\* of two and disables it while no winner is selected; the handler is taken
\* for every such group.)
SaveWinnerCall(e) ==
    /\ Interactive(e)
    /\ \E pi \in 1..Len(pools[e]) :
          \E gi \in 1..Len(pools[e][pi].groups) :
             /\ getMatchResult(pools[e][pi].name, pools[e][pi].groups[gi].name,
                               matchResults[e]) = NoRow
             /\ pc' = [pc EXCEPT ![e] =
                          [op |-> "saveWinner", step |-> "entry",
                           pool |-> pools[e][pi].name,
                           group |-> pools[e][pi].groups[gi],
                           view |-> Closure(e)]]
    /\ UNCHANGED <<storeVars, uiVars, pending>>

\* if (players.length < 2) return; ... if (!winnerId) return;
SaveWinnerValidOfTwo(players, winnerId) == Len(players) >= 2
SaveWinnerValid(players, winnerId) == Len(players) >= 2 /\ winnerId # Undefined

\* ... the handler, up to the select that looks for an existing result.
SaveWinnerEntry(e) ==
    /\ pc[e] # Idle /\ pc[e].op = "saveWinner" /\ pc[e].step = "entry"
    /\ LET group == pc[e].group
           groupId == GroupStageId(pc[e].pool, group.name)
           winnerId == Lookup(selectedWinners[e], groupId)
           existingResults ==
               Single(Filter(dbMatch, LAMBDA r : r.match_stage = groupId))
       IN pc' = [pc EXCEPT ![e] =
                    IF SaveWinnerValid(group.players, winnerId)
                    THEN [op |-> "saveWinner", step |-> "write",
                          match_stage |-> groupId,
                          player1_id |-> group.players[1].id,
                          player2_id |-> group.players[2].id,
                          winner_id |-> winnerId,
                          existing |-> existingResults.id,
                          view |-> pc[e].view]
                    ELSE Idle]
    /\ UNCHANGED <<storeVars, uiVars, pending>>

\* The players the Add Participant Select offers (eligiblePlayers): here the
\* next player of either association, while the roster is below MaxRoster.
EligiblePlayers ==
    IF Len(roster) < MaxRoster
    THEN {PlayerData(Len(roster) + 1, a) : a \in {"X", "Y"}}
    ELSE {}

\* addParticipant() called with selectedPlayerId as it stands ('' or an
\* eligible player).
AddParticipantCall(e) ==
    /\ Interactive(e)
    /\ \E player \in {NoPlayer} \cup EligiblePlayers :
          pc' = [pc EXCEPT ![e] = [op |-> "addParticipant", step |-> "entry",
                                   player |-> player]]
    /\ UNCHANGED <<storeVars, uiVars, pending>>

\* if (!selectedPlayerId) { alert(...); return; }
PlayerSelected(player) == player # NoPlayer

\* ... the handler: the alert, or the insert into sub_event_participants
\* and, when it succeeded, fetchSubEventAndParticipants(), which sets
\* loading and fetches the roster and the result log again.  (The
\* fetchMatchResults it ends with runs generateKnockoutMatches of the
\* handler's render; the effect on matchResults of the render that follows
\* regenerates from the current state, as after the mount's fetch.)
AddParticipantEntry(e) ==
    /\ pc[e] # Idle /\ pc[e].op = "addParticipant" /\ pc[e].step = "entry"
    /\ \E ok \in BOOLEAN :
          IF PlayerSelected(pc[e].player) /\ ok
          THEN /\ roster' = Append(roster, pc[e].player)
               /\ pending' = [pending EXCEPT ![e].participants = TRUE]
          ELSE UNCHANGED <<roster, pending>>
    /\ pc' = [pc EXCEPT ![e] = Idle]
    /\ UNCHANGED <<dbMatch, dbSummary, dbClubbed, nextId, uiVars>>

\* ---------------------------------------------------------- specifications
Load(e) == FetchParticipantsDone(e) \/ FetchMatchResultsDone(e)

GroupStage(e) ==
    \/ handleWinnerSelection(e)
    \/ SaveWinnerCheck(e)
    \/ SaveWinnerWrite(e)
    \/ SaveWinnerSummaryCheck(e)
    \/ SaveWinnerSummaryInsert(e)
    \/ SaveWinnerRefresh(e)

Championship(e) ==
    \/ FinalInsert(e)
    \/ FinalWinnerSummary(e)
    \/ FinalRunnerSummary(e)
    \/ FinalWinnerClubbed(e)
    \/ FinalRunnerClubbed(e)
    \/ FinalRefresh(e)

ThirdPlace(e) ==
    \/ handleThirdPlaceSelection(e)
    \/ ThirdPlaceInsert(e)
    \/ ThirdPlaceSummaryCheck(e)
    \/ ThirdPlaceSummaryInsert(e)
    \/ ThirdPlaceClubbed(e)

\* The editors' state with e1 showing view v, its load finished, and every
\* other editor freshly mounted.
EditorsWithLoaded(v) ==
    /\ participants = [e \in Editors |-> IF e = "e1" THEN v.participants ELSE <<>>]
    /\ pools = [e \in Editors |-> IF e = "e1" THEN v.pools ELSE <<>>]
    /\ matchResults = [e \in Editors |-> IF e = "e1" THEN v.matchResults ELSE <<>>]
    /\ selectedWinners = [e \in Editors |-> EmptyMap]
    /\ poolKnockoutMatches =
           [e \in Editors |-> IF e = "e1" THEN v.poolKnockoutMatches ELSE FreshPkm]
    /\ finalMatch = [e \in Editors |-> IF e = "e1" THEN v.finalMatch ELSE Null]
    /\ thirdPlaceSelections = [e \in Editors |-> EmptyMap]
    /\ pending = [e \in Editors |->
                     IF e = "e1"
                     THEN [participants |-> FALSE, inner |-> FALSE, mount |-> FALSE]
                     ELSE [participants |-> TRUE, inner |-> FALSE, mount |-> TRUE]]
    /\ pc = [e \in Editors |-> Idle]

\* The view of an editor whose load of roster r finished on an empty store,
\* the shuffle having drawn perm.
LoadedView(r, perm) ==
    FetchMatchResultsApply(
        RunEffects([MountView EXCEPT !.participants = r], {"participants"}, perm),
        <<>>, MountView)

\* One editor working through the group stage, the knockout stage and the
\* championship of a sub-event.
Next ==
    \/ Load("e1")
    \/ RegenerateKnockoutClick("e1")
    \/ GroupStage("e1")
    \/ handleKnockoutWinnerSelection("e1")
    \/ Championship("e1")

Spec == Init /\ [][Next]_vars

\* One editor who also uses Regenerate Pools.
NextRegenerate ==
    \/ Load("e1")
    \/ RegeneratePoolsClick("e1")
    \/ RegenerateKnockoutClick("e1")
    \/ GroupStage("e1")
    \/ handleKnockoutWinnerSelection("e1")
    \/ Championship("e1")

SpecRegenerate == Init /\ [][NextRegenerate]_vars

\* One editor, with the third-place selection and without Regenerate Pools.
NextPlacement ==
    \/ Load("e1")
    \/ RegenerateKnockoutClick("e1")
    \/ GroupStage("e1")
    \/ handleKnockoutWinnerSelection("e1")
    \/ Championship("e1")
    \/ ThirdPlace("e1")

SpecPlacement == Init /\ [][NextPlacement]_vars

\* Two editors on the same sub-event, one operation at a time: an editor
\* moves only while no other editor has a handler in flight.
NextSeq ==
    \E e \in Editors :
        /\ \A o \in Editors \ {e} : pc[o] = Idle
        /\ (Load(e) \/ GroupStage(e) \/ Championship(e) \/ ThirdPlace(e))

SpecSeq == Init /\ [][NextSeq]_vars

\* Two editors recording group winners concurrently: their handlers
\* interleave at every store call.
NextRace ==
    \E e \in Editors :
        \/ Load(e)
        \/ GroupStage(e)

SpecRace == Init /\ [][NextRace]_vars

\* generatePools as a function: every roster up to MaxPoolRoster over
\* Associations, every shuffle.
InitPools ==
    /\ \E n \in 0..MaxPoolRoster : roster \in Rosters(n, Associations)
    /\ InitStore
    /\ EditorsWithLoaded([MountView EXCEPT !.participants = roster])

\* generatePools applied once to the roster.
NextPools == pools["e1"] = <<>> /\ GeneratePools("e1")

SpecPools == InitPools /\ [][NextPools]_vars

\* The bracket builder on pools of byes: a roster of one association, so
\* that every participant is a group of its own and advances.
RosterX(n) == [i \in 1..n |-> PlayerData(i, "X")]

InitBracket ==
    /\ \E n \in 0..MaxBracketRoster : roster = RosterX(n)
    /\ InitStore
    /\ EditorsWithLoaded(LoadedView(roster, IdPerm(Len(roster))))

NextBracket ==
    \/ RegenerateKnockoutClick("e1")
    \/ handleKnockoutWinnerSelection("e1")

SpecBracket == InitBracket /\ [][NextBracket]_vars

\* The bracket builder on one long advancing list: the first k participants
\* are of one association and fill Pool A with k byes; the k - 1 others
\* alternate between two associations and fill Pool B with pairs, none of
\* them decided.
RosterByes(k) ==
    [i \in 1..(2 * k - 1) |->
        PlayerData(i, IF i <= k THEN "X" ELSE IF (i - k) % 2 = 1 THEN "Y" ELSE "Z")]

InitConverge ==
    /\ \E k \in 2..MaxAdvancing : roster = RosterByes(k)
    /\ InitStore
    /\ EditorsWithLoaded(LoadedView(roster, IdPerm(Len(roster))))

SpecConverge == InitConverge /\ [][NextBracket]_vars

\* One editor who records third places, adds results by hand and deletes
\* results.
NextManual ==
    \/ Load("e1")
    \/ ThirdPlace("e1")
    \/ ManualResults("e1")
    \/ Deletion("e1")

SpecManual == Init /\ [][NextManual]_vars

\* One editor recording at every stage and using the Delete buttons.
NextCurate ==
    \/ Load("e1")
    \/ RegenerateKnockoutClick("e1")
    \/ GroupStage("e1")
    \/ handleKnockoutWinnerSelection("e1")
    \/ Championship("e1")
    \/ ThirdPlace("e1")
    \/ Deletion("e1")

SpecCurate == Init /\ [][NextCurate]_vars

\* One editor whose requests are followed from the call: saving group
\* winners, adding participants and adding results by hand, with valid and
\* with invalid input.
NextValidate ==
    \/ Load("e1")
    \/ handleWinnerSelection("e1")
    \/ SaveWinnerCall("e1")
    \/ SaveWinnerEntry("e1")
    \/ SaveWinnerWrite("e1")
    \/ SaveWinnerSummaryCheck("e1")
    \/ SaveWinnerSummaryInsert("e1")
    \/ SaveWinnerRefresh("e1")
    \/ AddParticipantCall("e1")
    \/ AddParticipantEntry("e1")
    \/ ManualResults("e1")

SpecValidate == Init /\ [][NextValidate]_vars

\* The group stage on pools of pairs: a roster that alternates between two
\* associations, so that the pools are groups of two and, of an odd number
\* of participants, a last group of one.
RosterPairs(n) == [i \in 1..n |-> PlayerData(i, IF i % 2 = 1 THEN "X" ELSE "Y")]

InitGroups ==
    /\ \E n \in 0..MaxGroupRoster : roster = RosterPairs(n)
    /\ InitStore
    /\ EditorsWithLoaded(LoadedView(roster, IdPerm(Len(roster))))

\* One editor recording group winners and knockout winners in any order.
NextGroups ==
    \/ RegenerateKnockoutClick("e1")
    \/ GroupStage("e1")
    \/ handleKnockoutWinnerSelection("e1")

SpecGroups == InitGroups /\ [][NextGroups]_vars

\* ================================================================ properties
\* The places of a pools value: <<pool, group, member>> indices.
Slots(ps) ==
    UNION {UNION {{<<pi, gi, k>> : k \in 1..Len(ps[pi].groups[gi].players)} :
                  gi \in 1..Len(ps[pi].groups)} :
           pi \in 1..Len(ps)}
PlayerAt(ps, slot) == ps[slot[1]].groups[slot[2]].players[slot[3]]

\* C1: once generatePools ran on a roster, every participant is a member of
\* exactly one group of exactly one pool, every group has one or two members,
\* and every member is a participant of the roster.
C1_PoolsPartitionRoster ==
    \A e \in Editors :
        pools[e] # <<>> =>
            /\ Len(pools[e]) = 2
            /\ \A p \in Range(participants[e]) :
                  Cardinality({slot \in Slots(pools[e]) :
                                  PlayerAt(pools[e], slot) = p}) = 1
            /\ \A slot \in Slots(pools[e]) :
                  PlayerAt(pools[e], slot) \in Range(participants[e])
            /\ \A pi \in 1..Len(pools[e]) :
                  \A gi \in 1..Len(pools[e][pi].groups) :
                     Len(pools[e][pi].groups[gi].players) \in {1, 2}

\* generatePools ran on a roster of at least four and made a pair and a bye.
C1_Witness ==
    /\ Len(participants["e1"]) >= 4
    /\ pools["e1"] # <<>>
    /\ \E s1 \in Slots(pools["e1"]), s2 \in Slots(pools["e1"]) :
          /\ Len(pools["e1"][s1[1]].groups[s1[2]].players) = 2
          /\ Len(pools["e1"][s2[1]].groups[s2[2]].players) = 1

\* C2: a group pairs two participants of one association only if no
\* participant of another association was still unassigned in its pool when
\* the group was made (the members of the pool's later groups); and of the
\* roster [A(X), B(X), C(Y)] no group holds both A and B.
C2_NoAvoidableSamePair ==
    \A e \in Editors :
        /\ \A pi \in 1..Len(pools[e]) :
              \A gi \in 1..Len(pools[e][pi].groups) :
                 LET group == pools[e][pi].groups[gi]
                 IN (/\ Len(group.players) = 2
                     /\ group.players[1].association = group.players[2].association)
                    => \A gj \in (gi + 1)..Len(pools[e][pi].groups) :
                          \A q \in Range(pools[e][pi].groups[gj].players) :
                             q.association = group.players[1].association
        /\ participants[e] = <<PlayerData(1, "X"), PlayerData(2, "X"),
                               PlayerData(3, "Y")>>
           => \A slot \in Slots(pools[e]) :
                 LET members == {q.id : q \in Range(pools[e][slot[1]].groups[slot[2]].players)}
                 IN ~({1, 2} \subseteq members)

\* Of the roster [A(X), B(X), C(Y)], A and B fell into the same pool and each
\* is a group of its own.
C2_Witness ==
    /\ participants["e1"] = <<PlayerData(1, "X"), PlayerData(2, "X"),
                              PlayerData(3, "Y")>>
    /\ pools["e1"] # <<>>
    /\ Len(pools["e1"][1].groups) = 2
    /\ {pools["e1"][1].groups[gi].players[1].id : gi \in 1..2} = {1, 2}

\* The loser of a decided match.
Loser(m) == IF m.winner_id = m.player1.id THEN m.player2.id ELSE m.player1.id

\* C3: whenever getPoolFinalWinner gives a participant p for a pool, every
\* knockout match generated for that pool has a recorded winner and p is the
\* loser of none of them.
C3_FinalistIsSurvivor ==
    \A poolName \in {"Pool A", "Pool B"} :
        LET p == getPoolFinalWinner(poolName, View("e1"))
            ms == poolKnockoutMatches["e1"][poolName]
        IN p # NoPlayer =>
              \A i \in 1..Len(ms) :
                 /\ ms[i].winner_id # Undefined
                 /\ Loser(ms[i]) # p.id

\* The (sub-event, stageId) and natural keys of the store's rows.
AllIdle == \A e \in Editors : pc[e] = Idle
SameStage(i, j) == dbMatch[i].match_stage = dbMatch[j].match_stage
RowPairs(rows) == {ij \in (1..Len(rows)) \X (1..Len(rows)) : ij[1] < ij[2]}

\* C4: winner recording is idempotent: once every recording has ended, no
\* stage has two MatchResult rows of the same winner, and no natural key
\* (groupName, playerId, position) has two SummaryResult rows.
C4_RecordingIdempotent ==
    AllIdle =>
        /\ \A ij \in RowPairs(dbMatch) :
              SameStage(ij[1], ij[2]) =>
                 dbMatch[ij[1]].winner_id # dbMatch[ij[2]].winner_id
        /\ \A ij \in RowPairs(dbSummary) :
              ~(/\ dbSummary[ij[1]].group_name = dbSummary[ij[2]].group_name
                /\ dbSummary[ij[1]].player_id = dbSummary[ij[2]].player_id
                /\ dbSummary[ij[1]].position = dbSummary[ij[2]].position)

\* C5: finalMatch is never partially populated: it is null, or it is the
\* `final` match with both of its participants defined.
C5_FinalMatchWhole ==
    \A e \in Editors :
        \/ finalMatch[e] = Null
        \/ /\ finalMatch[e].id = FinalStageId
           /\ finalMatch[e].player1 # NoPlayer
           /\ finalMatch[e].player2 # NoPlayer

\* After the load exactly one pool has a finalist, and finalMatch is null.
C5_Witness ==
    /\ Interactive("e1")
    /\ pools["e1"] # <<>>
    /\ getPoolFinalWinner("Pool A", View("e1")) # NoPlayer
    /\ getPoolFinalWinner("Pool B", View("e1")) = NoPlayer
    /\ finalMatch["e1"] = Null

\* C6: every persisted MatchResult of a group, knockout or final stage has
\* its winner among its two players.
C6_WinnerIsPlayer ==
    \A i \in 1..Len(dbMatch) :
        dbMatch[i].match_stage[1] # "third-place" =>
            dbMatch[i].winner_id \in {dbMatch[i].player1_id, dbMatch[i].player2_id}

\* C7: winner recording is an upsert keyed by the stage: once every recording
\* has ended, a group, knockout or final stage has a single MatchResult row,
\* and the row read back for it is the one written last.
C7_UpsertKeepsLastWrite ==
    AllIdle =>
        \A i \in 1..Len(dbMatch) :
            LET stage == dbMatch[i].match_stage
                written == {j \in 1..Len(dbMatch) : dbMatch[j].match_stage = stage}
                last == CHOOSE j \in written : \A k \in written : k <= j
            IN stage[1] # "third-place" =>
                  /\ Cardinality(written) = 1
                  /\ FindResult(dbMatch, stage) = dbMatch[last]

\* C8: under every interleaving of two editors recording winners, the store
\* never holds two MatchResult rows of one stage.
C8_OneRowPerStage ==
    \A ij \in RowPairs(dbMatch) : ~SameStage(ij[1], ij[2])

EmptyLogBracket(ms, w) ==
    LET k == Len(w)
        odd == k % 2
    IN IF k <= 1 THEN Len(ms) = 0
       ELSE /\ Len(ms) = (k - odd) \div 2
            /\ \A i \in 1..Len(ms) :
                  /\ ms[i].player1 = w[2 * i - 1 + odd]
                  /\ ms[i].player2 = w[2 * i + odd]
                  /\ ms[i].winner_id = Undefined
                  /\ odd = 1 => w[1] \notin {ms[i].player1, ms[i].player2}

\* C10: generating the bracket over an empty result log gives, for a pool of
\* k advancing participants, no match when k <= 1, k/2 matches when k is
\* even and (k-1)/2 when k is odd, the first participant being the bye and
\* the others paired in order.
C10_EmptyLogBracketShape ==
    [][(matchResults["e1"] = <<>> /\ RegenerateKnockoutClick("e1")) =>
          \A poolName \in {"Pool A", "Pool B"} :
             EmptyLogBracket(poolKnockoutMatches'["e1"][poolName],
                             getPoolWinners(poolName, pools["e1"], <<>>,
                                            participants["e1"]))]_vars

\* Over an empty log, Pool A has the two matches of four advancing
\* participants and Pool B the one match of three, its first one the bye.
C10_Witness ==
    /\ matchResults["e1"] = <<>>
    /\ Len(getPoolWinners("Pool A", pools["e1"], <<>>, participants["e1"])) = 4
    /\ Len(getPoolWinners("Pool B", pools["e1"], <<>>, participants["e1"])) = 3
    /\ Len(poolKnockoutMatches["e1"]["Pool A"]) = 2
    /\ Len(poolKnockoutMatches["e1"]["Pool B"]) = 1

\* The advancing participants of a pool who are the loser of none of its
\* knockout matches.
Unbeaten(w, ms) ==
    {p \in Range(w) : \A i \in 1..Len(ms) : Loser(ms[i]) # p.id}

\* C11: the bracket of k > 1 advancing participants, built by recording a
\* winner for generated matches that have none and regenerating, ends
\* converged: once it is generated and all of its matches are decided, it
\* has k - 1 matches and exactly one participant has lost none of them.
C11_BracketConverges ==
    \A poolName \in {"Pool A", "Pool B"} :
        LET w == getPoolWinners(poolName, pools["e1"], matchResults["e1"],
                                participants["e1"])
            ms == poolKnockoutMatches["e1"][poolName]
        IN (/\ Len(w) > 1
            /\ Len(ms) > 0
            /\ \A i \in 1..Len(ms) : ms[i].winner_id # Undefined)
           => /\ Len(ms) = Len(w) - 1
              /\ Cardinality(Unbeaten(w, ms)) = 1

\* The matches of editor e's derived state, <<kind, pool, index>>: the groups
\* of the pools, the knockout matches of both pools, the championship match
\* and the third-place match of each pool.
DerivedMatches(e) ==
    UNION {{<<"group", pi, gi>> : gi \in 1..Len(pools[e][pi].groups)} :
              pi \in 1..Len(pools[e])}
    \cup UNION {{<<"knockout", pn, i>> :
                    i \in 1..Len(poolKnockoutMatches[e][IF pn = 1 THEN "Pool A"
                                                                  ELSE "Pool B"])} :
                 pn \in 1..2}
    \cup (IF finalMatch[e] # Null THEN {<<"final", 0, 0>>} ELSE {})
    \cup {<<"third-place", pn, 0>> : pn \in 1..2}

StageIdOf(e, m) ==
    IF m[1] = "group"
    THEN GroupStageId(pools[e][m[2]].name, pools[e][m[2]].groups[m[3]].name)
    ELSE IF m[1] = "knockout"
    THEN poolKnockoutMatches[e][IF m[2] = 1 THEN "Pool A" ELSE "Pool B"][m[3]].id
    ELSE IF m[1] = "final" THEN finalMatch[e].id
    ELSE ThirdPlaceStageId(IF m[2] = 1 THEN "Pool A" ELSE "Pool B")

\* C12: in every derived state no two matches among the group matches, the
\* knockout matches of both pools, the championship match and the
\* third-place matches have the same stage id.
C12_StageIdsUnique ==
    \A e \in Editors :
        \A m1 \in DerivedMatches(e), m2 \in DerivedMatches(e) :
            m1 # m2 => StageIdOf(e, m1) # StageIdOf(e, m2)

\* Pool A's bracket has its three matches over two rounds, Pool B's has
\* two, and the championship match is set.
C12_Witness ==
    /\ Len(pools["e1"]) = 2
    /\ Len(pools["e1"][1].groups) = 4
    /\ Len(poolKnockoutMatches["e1"]["Pool A"]) = 3
    /\ Len(poolKnockoutMatches["e1"]["Pool B"]) = 2
    /\ finalMatch["e1"] # Null

\* The stored results of knockout matches of the round the builder numbers 2
\* (id knockout-<pool>.2-match<n>, label "Round 2 Match <n + 1>").
RoundTwoResults ==
    {i \in 1..Len(dbMatch) :
        /\ dbMatch[i].match_stage[1] = "knockout"
        /\ dbMatch[i].match_stage[5] = "2"}
RowLoser(r) == IF r.winner_id = r.player1_id THEN r.player2_id ELSE r.player1_id

\* C13: once a winner is recorded for a knockout match of Round 2, the store
\* holds exactly one semi_finalist SummaryResult for the loser of that match.
C13_SemifinalLoserRecorded ==
    \A i \in RoundTwoResults :
        Cardinality({j \in 1..Len(dbSummary) :
                        /\ dbSummary[j].player_id = RowLoser(dbMatch[i])
                        /\ dbSummary[j].position = "semi_finalist"}) = 1

HasSummaryIn(rows, groupName, playerId, resultType, position) ==
    \E j \in 1..Len(rows) :
        /\ rows[j].group_name = groupName
        /\ rows[j].player_id = playerId
        /\ rows[j].result_type = resultType
        /\ rows[j].position = position
HasSummary(groupName, playerId, resultType, position) ==
    HasSummaryIn(dbSummary, groupName, playerId, resultType, position)
HasClubbedIn(rows, playerId, rank) ==
    \E j \in 1..Len(rows) : rows[j].player_id = playerId /\ rows[j].rank = rank
HasClubbed(playerId, rank) == HasClubbedIn(dbClubbed, playerId, rank)

\* C14: once the recording of a championship winner w has ended, the store
\* holds the `final` MatchResult of winner w, who is one of its two players,
\* the SummaryResults (Final, w, final, winner) and (Final, r, final,
\* runner_up) and the ClubbedResults (w, 1st) and (r, 2nd), r being the
\* other finalist, who is not w.
C14_ChampionshipEmissions ==
    AllIdle =>
        \A i \in 1..Len(dbMatch) :
            dbMatch[i].match_stage = FinalStageId =>
                LET w == dbMatch[i].winner_id
                    r == RowLoser(dbMatch[i])
                IN /\ w \in {dbMatch[i].player1_id, dbMatch[i].player2_id}
                   /\ r # w
                   /\ HasSummary(<<"Final">>, w, "final", "winner")
                   /\ HasSummary(<<"Final">>, r, "final", "runner_up")
                   /\ HasClubbed(w, "1st")
                   /\ HasClubbed(r, "2nd")

HasResultIn(rows, stage, winnerId) ==
    \E j \in 1..Len(rows) :
        rows[j].match_stage = stage /\ rows[j].winner_id = winnerId

\* C15: when saveThirdPlace(pool, p) ends after its insert succeeded, the
\* store holds a MatchResult of stage third-place-<pool> with winner p, the
\* SummaryResult (pool, p, pool, bronze) and the ClubbedResult (p, 3rd); and
\* a step of it inserts the summary, or the clubbed entry, only when that
\* entry was absent.
C15_ThirdPlaceEmissions ==
    [][\A e \in Editors :
          (pc[e] # Idle /\ pc[e].op = "thirdPlace") =>
              /\ pc'[e] = Idle =>
                    /\ HasResultIn(dbMatch', ThirdPlaceStageId(pc[e].pool),
                                   pc[e].player_id)
                    /\ HasSummaryIn(dbSummary', <<pc[e].pool>>, pc[e].player_id,
                                    "pool", "bronze")
                    /\ HasClubbedIn(dbClubbed', pc[e].player_id, "3rd")
              /\ dbSummary' # dbSummary =>
                    ~HasSummary(<<pc[e].pool>>, pc[e].player_id, "pool", "bronze")
              /\ dbClubbed' # dbClubbed => ~HasClubbed(pc[e].player_id, "3rd")]_vars

\* C16: deleting a SummaryResult or a ClubbedResult by id removes the one
\* row of that id from its table, and every other row of the three tables
\* stays as it was.
C16_DeleteRemovesOneRow ==
    [][/\ SummaryDeleteClick("e1") =>
             /\ \E i \in 1..Len(dbSummary) : dbSummary' = RemoveAt(dbSummary, i)
             /\ dbClubbed' = dbClubbed /\ dbMatch' = dbMatch
       /\ ClubbedDeleteClick("e1") =>
             /\ \E i \in 1..Len(dbClubbed) : dbClubbed' = RemoveAt(dbClubbed, i)
             /\ dbSummary' = dbSummary /\ dbMatch' = dbMatch]_vars

\* Of two summary results one was deleted and the other is still there, with
\* the third-place result and the clubbed entry recorded with it.
C16_Witness ==
    /\ nextId.summary = 3
    /\ Len(dbSummary) = 1
    /\ Len(dbClubbed) = 1
    /\ Len(dbMatch) = 1

Ids(rows) == {rows[i].id : i \in 1..Len(rows)}

\* The steps that only derive: pool assignment (the effect on participants,
\* at the load), regeneration of the knockout matches (at the load and at
\* the Regenerate button), and the finalist and championship resolution the
\* re-render runs with them.
Derivation(e) ==
    \/ Load(e)
    \/ RegenerateKnockoutClick(e)

\* C17: pool assignment, regeneration of knockout matches and finalist and
\* championship resolution leave the three tables as they are; no step
\* removes a MatchResult row; and a SummaryResult or ClubbedResult row is
\* removed only by a click on its table's Delete button.
C17_OnlyExplicitOperationsWrite ==
    [][/\ Derivation("e1") =>
             dbMatch' = dbMatch /\ dbSummary' = dbSummary /\ dbClubbed' = dbClubbed
       /\ Ids(dbMatch) \subseteq Ids(dbMatch')
       /\ ~(Ids(dbSummary) \subseteq Ids(dbSummary')) => SummaryDeleteClick("e1")
       /\ ~(Ids(dbClubbed) \subseteq Ids(dbClubbed')) => ClubbedDeleteClick("e1")]_vars

\* The championship is set over stored results, a summary result was
\* deleted and another one is still stored.
C17_Witness ==
    /\ finalMatch["e1"] # Null
    /\ Len(dbMatch) >= 1
    /\ Len(dbSummary) >= 1
    /\ Len(dbSummary) < nextId.summary - 1

\* A request at its entry whose input fails validation: no winner selected
\* or a group of fewer than two, no player selected, a form with a required
\* field missing.
Rejected(e) ==
    /\ pc[e] # Idle
    /\ pc[e].step = "entry"
    /\ \/ /\ pc[e].op = "saveWinner"
          /\ \/ Len(pc[e].group.players) < 2
             \/ Lookup(selectedWinners[e],
                       GroupStageId(pc[e].pool, pc[e].group.name)) = Undefined
       \/ /\ pc[e].op = "addParticipant"
          /\ pc[e].player.id = 0
       \/ /\ pc[e].op = "addSummary"
          /\ \/ pc[e].form.groupName = <<>>
             \/ pc[e].form.playerId = 0
             \/ pc[e].form.resultType = ""
             \/ pc[e].form.position = ""
       \/ /\ pc[e].op = "addClubbed"
          /\ pc[e].form.playerId = 0 \/ pc[e].form.rank = ""

\* C18: a request that fails validation ends at once: the step of its
\* handler makes no store call and starts none (the handler is over, no
\* fetch is begun), and the roster, the three tables and the editor's
\* result log are unchanged.
C18_RejectedBeforeStore ==
    [][\A e \in Editors :
          (Rejected(e) /\ pc'[e] # pc[e]) =>
              /\ pc'[e] = Idle
              /\ pending' = pending
              /\ roster' = roster
              /\ dbMatch' = dbMatch /\ dbSummary' = dbSummary
              /\ dbClubbed' = dbClubbed /\ nextId' = nextId
              /\ matchResults' = matchResults]_vars

\* Add Clubbed Result was clicked with a field missing while the store
\* holds a saved group winner and its summary result.
C18_Witness ==
    /\ Rejected("e1")
    /\ pc["e1"].op = "addClubbed"
    /\ Len(dbMatch) = 1
    /\ Len(dbSummary) = 1
    /\ Len(matchResults["e1"]) = 1

\* The number of participants placed in pool pi of a pools value.
PoolSize(ps, pi) == Cardinality({slot \in Slots(ps) : slot[1] = pi})

\* C19: generatePools on N participants gives Pool A and Pool B with
\* ceil(N/2) and floor(N/2) participants (any set of ceil(N/2) participants
\* is the head of some shuffled order), so the sizes differ by at most one;
\* N = 0 gives two pools with no groups, N = 1 gives Pool A with the one
\* participant as a group of one and Pool B with no groups.
C19_PoolSplit ==
    LET ps == pools["e1"]
        N == Len(participants["e1"])
    IN ps # <<>> =>
          /\ Len(ps) = 2
          /\ ps[1].name = "Pool A" /\ ps[2].name = "Pool B"
          /\ 2 * PoolSize(ps, 1) \in {N, N + 1}
          /\ PoolSize(ps, 1) + PoolSize(ps, 2) = N
          /\ PoolSize(ps, 1) - PoolSize(ps, 2) \in {0, 1}
          /\ N = 0 => ps[1].groups = <<>> /\ ps[2].groups = <<>>
          /\ N = 1 => /\ Len(ps[1].groups) = 1
                      /\ ps[1].groups[1].players = <<participants["e1"][1]>>
                      /\ ps[2].groups = <<>>

\* generatePools ran on five participants: three are in Pool A, two in
\* Pool B.
C19_Witness ==
    /\ Len(participants["e1"]) = 5
    /\ pools["e1"] # <<>>
    /\ PoolSize(pools["e1"], 1) = 3
    /\ PoolSize(pools["e1"], 2) = 2

\* Nothing of editor e is in flight: no fetch of the load, no handler.
Settled(e) ==
    /\ pc[e] = Idle
    /\ ~pending[e].participants /\ ~pending[e].inner /\ ~pending[e].mount

\* C20: whenever nothing of an editor is in flight, the knockout matches it
\* holds for each pool are what the bracket builder gives for its current
\* pools, participants and result log.
C20_BracketNeverStale ==
    \A e \in Editors :
        Settled(e) => poolKnockoutMatches[e] = generateKnockoutMatches(View(e))

\* The place in the result log of the result attached to knockout match m
\* (0 when the log has none): a later place is a later recording.
RecordedAt(results, m) == FindIndex(results, LAMBDA r : r.match_stage = m.id)

\* The finalist the stated heuristic gives for a pool of editor e.
FinalistHeuristic(e, poolName) ==
    LET w == getPoolWinners(poolName, pools[e], matchResults[e], participants[e])
        ms == poolKnockoutMatches[e][poolName]
        decided == {i \in 1..Len(ms) : ms[i].winner_id # Undefined}
        qualifying == {i \in decided :
                          \/ AppearanceCount(ms, ms[i].player1.id) > 1
                          \/ AppearanceCount(ms, ms[i].player2.id) > 1}
        first == CHOOSE i \in qualifying : \A j \in qualifying : i <= j
        latest == CHOOSE i \in decided :
                      \A j \in decided : RecordedAt(matchResults[e], ms[j])
                                            <= RecordedAt(matchResults[e], ms[i])
    IN IF Len(w) = 0 THEN NoPlayer
       ELSE IF Len(ms) = 0 THEN (IF Len(w) = 1 THEN w[1] ELSE NoPlayer)
       ELSE IF decided = {} THEN NoPlayer
       ELSE IF qualifying # {}
       THEN FindPlayer(participants[e], ms[first].winner_id)
       ELSE FindPlayer(participants[e], ms[latest].winner_id)

C21_FallbackReached ==
    LET a == poolKnockoutMatches["e1"]["Pool A"]
    IN /\ Len(a) = 2
       /\ a[1].winner_id = Undefined
       /\ a[2].winner_id # Undefined
       /\ getPoolFinalWinner("Pool A", View("e1")).id = a[2].winner_id

\* The groups of pool pi of editor e that are resolved: a result of stage
\* <pool>-<group> is in the log, or the group has one member.
GroupResults(e, pi, gi) ==
    {i \in 1..Len(matchResults[e]) :
        matchResults[e][i].match_stage =
            <<pools[e][pi].name, "-">> \o pools[e][pi].groups[gi].name}
ResolvedGroups(e, pi) ==
    {gi \in 1..Len(pools[e][pi].groups) :
        \/ GroupResults(e, pi, gi) # {}
        \/ Len(pools[e][pi].groups[gi].players) = 1}

\* C22: the advancing list of a pool has one entry per resolved group, in
\* group order: the recorded winner when a result of stage <pool>-<group>
\* exists, otherwise the sole member of a group of one; a group of two
\* without a recorded result gives no entry.
C22_AdvancingList ==
    \A pi \in 1..Len(pools["e1"]) :
        LET w == getPoolWinners(pools["e1"][pi].name, pools["e1"],
                                matchResults["e1"], participants["e1"])
            resolved == ResolvedGroups("e1", pi)
            \* the number of resolved groups up to group gi
            rank(gi) == Cardinality({g \in resolved : g <= gi})
        IN /\ Len(w) = Cardinality(resolved)
           /\ \A gi \in resolved :
                 IF GroupResults("e1", pi, gi) # {}
                 THEN w[rank(gi)].id \in
                          {matchResults["e1"][i].winner_id :
                              i \in GroupResults("e1", pi, gi)}
                 ELSE w[rank(gi)] = pools["e1"][pi].groups[gi].players[1]

\* Pool A has two groups of two, the second one decided for its second
\* member and the first one not; Pool B has a decided group of two and a
\* group of one.
C22_Witness ==
    /\ Len(pools["e1"]) = 2
    /\ Len(pools["e1"][1].groups) = 2
    /\ GroupResults("e1", 1, 1) = {}
    /\ \E i \in GroupResults("e1", 1, 2) :
          matchResults["e1"][i].winner_id = pools["e1"][1].groups[2].players[2].id
    /\ Len(pools["e1"][2].groups) = 2
    /\ GroupResults("e1", 2, 1) # {}
    /\ Len(pools["e1"][2].groups[2].players) = 1

\* The greedy reference: the groups of the participants `remaining` of a
\* pool, in pool order, the groups made so far being `index - 1`.
RECURSIVE GreedyGroups(_, _, _)
GreedyGroups(remaining, poolNumber, index) ==
    IF remaining = <<>> THEN <<>>
    ELSE LET anchor == remaining[1]
             others == {i \in 2..Len(remaining) :
                           remaining[i].association # anchor.association}
             partner == CHOOSE i \in others : \A j \in others : i <= j
             name == <<ToString(poolNumber), ".", ToString(index)>>
         IN IF others = {}
            THEN <<[name |-> name, players |-> <<anchor>>]>>
                 \o GreedyGroups(Tail(remaining), poolNumber, index + 1)
            ELSE <<[name |-> name, players |-> <<anchor, remaining[partner]>>]>>
                 \o GreedyGroups(
                        SelectSeq([i \in 1..Len(remaining) |->
                                      IF i \in {1, partner} THEN NoPlayer
                                      ELSE remaining[i]],
                                  LAMBDA q : q # NoPlayer),
                        poolNumber, index + 1)

\* The members of a pool, and the orders in which they can have come to
\* createPoolGroups.
PoolMembers(ps, pi) == {PlayerAt(ps, slot) : slot \in {t \in Slots(ps) : t[1] = pi}}
PoolOrders(ps, pi) ==
    {order \in [1..Cardinality(PoolMembers(ps, pi)) -> PoolMembers(ps, pi)] :
        \A i, j \in DOMAIN order : i # j => order[i] # order[j]}

\* C23: the groups createPoolGroups makes of a pool are those of the greedy
\* reference for the pool's order (every order that gives the pool of the
\* state gives it by the reference too): the first remaining participant is
\* the anchor, its partner the first remaining participant of another
\* association, a group of one exactly when there is none; no group pairs
\* two participants of one association; the groups are named
\* <poolNumber>.<index>, index 1, 2, 3, ... in creation order, Pool A being 1
\* and Pool B 2.
C23_GreedyGroups ==
    \A pi \in 1..Len(pools["e1"]) :
        /\ \A order \in PoolOrders(pools["e1"], pi) :
              pools["e1"][pi] = createPoolGroups(order, IF pi = 1 THEN "A" ELSE "B")
                  => pools["e1"][pi].groups = GreedyGroups(order, pi, 1)
        /\ \A gi \in 1..Len(pools["e1"][pi].groups) :
              LET group == pools["e1"][pi].groups[gi]
              IN /\ group.name = <<ToString(pi), ".", ToString(gi)>>
                 /\ Len(group.players) = 2 =>
                       group.players[1].association # group.players[2].association

\* Pool A's anchor skipped a participant of its own association and took
\* the one after as its partner, the skipped one is group 1.2; Pool B is two
\* groups of one, 2.1 and 2.2.
C23_Witness ==
    /\ Len(participants["e1"]) = 5
    /\ pools["e1"] # <<>>
    /\ Len(pools["e1"][1].groups) = 2
    /\ Len(pools["e1"][1].groups[1].players) = 2
    /\ pools["e1"][1].groups[2].players[1].association =
           pools["e1"][1].groups[1].players[1].association
    /\ pools["e1"][1].groups[2].name = <<"1", ".", "2">>
    /\ Len(pools["e1"][2].groups) = 2
    /\ pools["e1"][2].groups[2].name = <<"2", ".", "2">>

\* Pool pi of editor e has a group of two without a recorded winner.
HasUnresolvedGroup(e, pi) ==
    \E gi \in 1..Len(pools[e][pi].groups) :
        /\ Len(pools[e][pi].groups[gi].players) = 2
        /\ GroupResults(e, pi, gi) = {}

\* C24: while some group of two of a pool has no recorded winner, the pool
\* has no finalist, and no championship match is set.
C24_FinalistAwaitsGroups ==
    \A pi \in 1..Len(pools["e1"]) :
        HasUnresolvedGroup("e1", pi) =>
            /\ getPoolFinalWinner(pools["e1"][pi].name, View("e1")) = NoPlayer
            /\ finalMatch["e1"] = Null

\* The round a knockout match was made in, as its stage id names it
\* (knockout-<pool>.<round>-match<n>).
RoundOf(m) == m.id[5]

\* C25: no match of a later round is in a pool's bracket while the round
\* before is incomplete: whenever the bracket holds a match made in a later
\* round than another, the earlier round's match has a recorded winner.
C25_RoundsComplete ==
    \A poolName \in {"Pool A", "Pool B"} :
        LET ms == poolKnockoutMatches["e1"][poolName]
        IN \A i \in 1..Len(ms), j \in 1..Len(ms) :
              (i < j /\ RoundOf(ms[i]) # RoundOf(ms[j])) =>
                  ms[i].winner_id # Undefined

\* C26: with the roster and the pools fixed, after group and knockout
\* winners were recorded in any order, every knockout match of the bracket
\* has two distinct participants, and a winner attached to it from the
\* result log is one of the two.
C26_KnockoutMatchSound ==
    \A poolName \in {"Pool A", "Pool B"} :
        LET ms == poolKnockoutMatches["e1"][poolName]
        IN \A i \in 1..Len(ms) :
              /\ ms[i].player1 # NoPlayer /\ ms[i].player2 # NoPlayer
              /\ ms[i].player1.id # ms[i].player2.id
              /\ ms[i].winner_id # Undefined =>
                    ms[i].winner_id \in {ms[i].player1.id, ms[i].player2.id}

\* The number a formatted number stands for.
ParseInt(text) == CHOOSE n \in 0..(2 * MaxBracketRoster + 2) : ToString(n) = text
\* The round named by the stage label of a knockout match
\* (Round <round> Match <n>).
LabelRoundOf(m) == m.stage[3]

\* C27: the round in a knockout stage id and in the label Round <round> is
\* the ordinal of the elimination round the match is played in: the first
\* match of a bracket carries 1, and each match carries the round of the
\* match before it or, as the first match of the next round, one more; the
\* label names the same round as the id.
C27_RoundOrdinal ==
    \A poolName \in {"Pool A", "Pool B"} :
        LET ms == poolKnockoutMatches["e1"][poolName]
        IN /\ Len(ms) > 0 => ParseInt(RoundOf(ms[1])) = 1
           /\ \A i \in 1..(Len(ms) - 1) :
                 ParseInt(RoundOf(ms[i + 1])) - ParseInt(RoundOf(ms[i])) \in {0, 1}
           /\ \A i \in 1..Len(ms) : LabelRoundOf(ms[i]) = RoundOf(ms[i])

\* C28: a championship match that is present holds the current finalists:
\* its player1 is Pool A's finalist and its player2 Pool B's; when a
\* finalist becomes undefined or another participant, the match is cleared
\* or updated.
C28_FinalMatchCurrent ==
    \A e \in Editors :
        finalMatch[e] # Null =>
            /\ finalMatch[e].player1 = getPoolFinalWinner("Pool A", View(e))
            /\ finalMatch[e].player2 = getPoolFinalWinner("Pool B", View(e))

\* The step of a winner recording that writes the match result: of a group
\* winner, a knockout winner, the championship winner, a third place.
RecordingWrite(e) ==
    \/ SaveWinnerWrite(e)
    \/ handleKnockoutWinnerSelection(e)
    \/ FinalInsert(e)
    \/ ThirdPlaceInsert(e)

\* C29: when the write of the match result fails in a winner recording (the
\* step leaves the table of match results as it was), the recording is
\* over: the handler has ended and makes no further store call, so the write
\* is not tried again, no summary or clubbed result is written, and the
\* editor's result log is unchanged.
C29_FailedWriteIsTerminal ==
    [][\A e \in Editors :
          (RecordingWrite(e) /\ dbMatch' = dbMatch /\ nextId' = nextId) =>
              /\ pc'[e] = Idle
              /\ dbSummary' = dbSummary
              /\ dbClubbed' = dbClubbed
              /\ matchResults' = matchResults]_vars

\* The write of the result of a group of two is about to be made for the
\* group's second member, the selected winner; nothing is stored yet, and
\* the editor's log is empty.
C29_Witness ==
    /\ pc["e1"] # Idle
    /\ pc["e1"].op = "saveWinner"
    /\ pc["e1"].step = "write"
    /\ pc["e1"].winner_id = pc["e1"].player2_id
    /\ pc["e1"].existing = Undefined
    /\ dbMatch = <<>>
    /\ matchResults["e1"] = <<>>

\* Every call of the bracket builder's recursion, from the call on
\* poolPlayers on, is on a list shorter than its caller's.
RECURSIVE RecursesOnShorter(_, _, _, _, _)
RecursesOnShorter(poolPlayers, poolName, matchesArray, results, parts) ==
    IF Len(poolPlayers) <= 1 THEN TRUE
    ELSE LET odd == Len(poolPlayers) % 2 # 0
             bye == ByeIndex(poolPlayers)
             round == RoundLoop(IF odd THEN RemoveAt(poolPlayers, bye)
                                       ELSE poolPlayers,
                                IF odd THEN <<poolPlayers[bye]>> ELSE <<>>,
                                matchesArray,
                                RoundIndex(matchesArray, poolPlayers),
                                poolName, results, parts)
         IN Len(round.next) > 1 =>
               /\ Len(round.next) < Len(poolPlayers)
               /\ RecursesOnShorter(round.next, poolName, round.matches,
                                    results, parts)

\* C30: pool grouping and bracket construction come to an end within their
\* bounds: every group createPoolGroups made took at least one participant
\* out of the pool, so a pool has no more groups than participants; the
\* bracket builder recurses only on a shorter list, and the bracket of k
\* advancing participants, as held and as built again from the current
\* result log, has at most k - 1 matches (none for k = 0).
C30_BuildersBounded ==
    LET N == Len(participants["e1"])
        v == View("e1")
        built == generateKnockoutMatches(v)
    IN /\ \A pi \in 1..Len(pools["e1"]) :
             /\ Len(pools["e1"][pi].groups)
                    <= (IF pi = 1 THEN (N + 1) \div 2 ELSE N \div 2)
             /\ \A gi \in 1..Len(pools["e1"][pi].groups) :
                   Len(pools["e1"][pi].groups[gi].players) >= 1
       /\ \A poolName \in {"Pool A", "Pool B"} :
             LET w == getPoolWinners(poolName, v.pools, v.matchResults,
                                     v.participants)
                 k == Len(w)
                 most == IF k = 0 THEN 0 ELSE k - 1
             IN /\ RecursesOnShorter(w, poolName, <<>>, v.matchResults,
                                     v.participants)
                /\ Len(built[poolName]) <= most
                /\ Len(poolKnockoutMatches["e1"][poolName]) <= most

\* The bracket of seven advancing participants holds six matches over
\* three rounds of recordings, all but the last one decided.
C30_Witness ==
    LET ms == poolKnockoutMatches["e1"]["Pool A"]
    IN /\ Len(getPoolWinners("Pool A", pools["e1"], matchResults["e1"],
                             participants["e1"])) = 7
       /\ Len(ms) = 6
       /\ \A i \in 1..5 : ms[i].winner_id # Undefined

====
